---------------------------- MODULE Spec2Model ----------------------------
(***************************************************************************)
(* A model of GameConfigManager (server/src/Python/game_config_manager.py):*)
(* the schema-driven reading and writing of game-server configuration      *)
(* files through the configobj, pyhocon, ruamel.yaml, properties, json and *)
(* toml adapters, and the nested-field codec "(k1=v1,k2=v2)".              *)
(*                                                                         *)
(* Texts are sequences of one-character strings, so that the character     *)
(* scans of the code (quote tracking, split on '=', strip, lower) are      *)
(* computed as the code computes them.  Python values are tagged records.  *)
(* Section keys and field names are texts too; format ids and schema types *)
(* are TLA+ strings.                                                       *)
(***************************************************************************)
EXTENDS Integers, Sequences, FiniteSets, TLC

VARIABLES
    schema,       \* the config_schema argument of the calls of this run
    dirExists,    \* the parent directory of the config file exists
    dirCreatable, \* os.makedirs can create the parent directory
    dirWritable,  \* os.access(config_dir, os.W_OK)
    file,         \* the config file: NoFile, or its kind and content
    written,      \* the record and format of the last successful write, while
                  \* the file still is what that write left
    last,         \* the most recent step: the call, its arguments, its result
    nval,         \* nested codec: the NestedValue given to encode
    ntext,        \* nested codec: the parenthesised text
    nraw,         \* nested codec: the value handed to decode (text or list)
    nout,         \* nested codec: the decoded tokens
    nphase        \* nested codec: "idle", "value", "text", "raw", "decoded"

vars == <<schema, dirExists, dirCreatable, dirWritable, file, written, last,
          nval, ntext, nraw, nout, nphase>>

storeVars == <<schema, dirExists, dirCreatable, dirWritable, file, written, last>>
codecVars == <<nval, ntext, nraw, nout, nphase>>

-----------------------------------------------------------------------------
(* Bounds of the model.                                                    *)

\* number of pieces a nested text of the codec specification is built from
MaxPieces == 5
\* number of tokens of a NestedValue given to the codec's encode
MaxTokens == 3
\* number of lines of an externally edited properties file
MaxLines == 2

-----------------------------------------------------------------------------
(* Characters and texts.                                                   *)

UpperAlpha == <<"A","B","C","D","E","F","G","H","I","J","K","L","M",
                "N","O","P","Q","R","S","T","U","V","W","X","Y","Z">>
LowerAlpha == <<"a","b","c","d","e","f","g","h","i","j","k","l","m",
                "n","o","p","q","r","s","t","u","v","w","x","y","z">>
DigitChars == <<"0","1","2","3","4","5","6","7","8","9">>

IndexIn(seq, c) == CHOOSE i \in 1..Len(seq) : seq[i] = c
Occurs(seq, c) == \E i \in 1..Len(seq) : seq[i] = c

\* str.lower(), one character
LowerChar(c) == IF Occurs(UpperAlpha, c) THEN LowerAlpha[IndexIn(UpperAlpha, c)] ELSE c
\* str.lower()
Lower(t) == [i \in 1..Len(t) |-> LowerChar(t[i])]

IsDigit(c) == Occurs(DigitChars, c)
DigitVal(c) == IndexIn(DigitChars, c) - 1
IsSpace(c) == c = " "

RECURSIVE LStrip(_)
LStrip(t) == IF t # <<>> /\ IsSpace(t[1]) THEN LStrip(Tail(t)) ELSE t
RECURSIVE RStrip(_)
RStrip(t) == IF t # <<>> /\ IsSpace(t[Len(t)]) THEN RStrip(SubSeq(t, 1, Len(t) - 1)) ELSE t
\* str.strip()
Strip(t) == RStrip(LStrip(t))

\* c in text
HasChar(t, c) == Occurs(t, c)
\* text.startswith(c) / text.endswith(c) for a one-character c
StartsWith(t, c) == t # <<>> /\ t[1] = c
EndsWith(t, c) == t # <<>> /\ t[Len(t)] = c

\* text.split(sep, 1) for a one-character sep that occurs in text
SplitFirst(t, sep) ==
    LET i == CHOOSE j \in 1..Len(t) : t[j] = sep /\ \A k \in 1..(j - 1) : t[k] # sep
    IN  <<SubSeq(t, 1, i - 1), SubSeq(t, i + 1, Len(t))>>

\* text.split(sep): the pieces between every occurrence of sep
RECURSIVE SplitAll(_, _)
SplitAll(t, sep) ==
    IF HasChar(t, sep)
    THEN LET p == SplitFirst(t, sep) IN <<p[1]>> \o SplitAll(p[2], sep)
    ELSE <<t>>

\* sep.join(list)
RECURSIVE Join(_, _)
Join(list, sep) ==
    IF list = <<>> THEN <<>>
    ELSE IF Len(list) = 1 THEN list[1]
    ELSE list[1] \o sep \o Join(Tail(list), sep)

\* the concatenation of the sequences of a list
RECURSIVE Concat(_)
Concat(list) == IF list = <<>> THEN <<>> ELSE list[1] \o Concat(Tail(list))

RECURSIVE DigitsValue(_)
DigitsValue(t) == IF t = <<>> THEN 0 ELSE 10 * DigitsValue(SubSeq(t, 1, Len(t) - 1)) + DigitVal(t[Len(t)])

AllDigits(t) == t # <<>> /\ \A i \in 1..Len(t) : IsDigit(t[i])
Unsigned(t) == IF t # <<>> /\ t[1] \in {"+", "-"} THEN Tail(t) ELSE t
Negative(t) == t # <<>> /\ t[1] = "-"

\* int(text) succeeds: optional surrounding blanks, optional sign, digits
IsIntText(t) == AllDigits(Unsigned(Strip(t)))
\* int(text)
IntOfText(t) ==
    LET u == Strip(t) IN IF Negative(u) THEN 0 - DigitsValue(Unsigned(u)) ELSE DigitsValue(Unsigned(u))

\* float(text) succeeds: optional sign, digits with at most one point
IsFloatText(t) ==
    LET u == Unsigned(Strip(t)) IN
    IF HasChar(u, ".")
    THEN LET p == SplitFirst(u, ".") IN
         /\ p[1] \o p[2] # <<>>
         /\ \A i \in 1..Len(p[1]) : IsDigit(p[1][i])
         /\ \A i \in 1..Len(p[2]) : IsDigit(p[2][i])
    ELSE AllDigits(u)

RECURSIVE DropTrailingZeros(_)
DropTrailingZeros(t) ==
    IF t # <<>> /\ t[Len(t)] = "0" THEN DropTrailingZeros(SubSeq(t, 1, Len(t) - 1)) ELSE t

RECURSIVE DigitsOf(_)
DigitsOf(n) == IF n < 10 THEN <<DigitChars[n + 1]>> ELSE DigitsOf(n \div 10) \o <<DigitChars[(n % 10) + 1]>>

-----------------------------------------------------------------------------
(* Python values.                                                          *)

StrV(s) == [k |-> "str", s |-> s]
BoolV(b) == [k |-> "bool", b |-> b]
IntV(n) == [k |-> "int", n |-> n]
\* the float int/10^frac, written with the digits `int` and the fraction
\* digits `frac` (no trailing zeros)
FloatV(neg, int, frac) == [k |-> "float", neg |-> neg, int |-> int, frac |-> frac]
\* a list of texts
ListV(l) == [k |-> "list", l |-> l]
\* a dict of a structured document: a sequence of <<key text, value>>
ObjV(o) == [k |-> "obj", o |-> o]
\* None
NoneV == [k |-> "none"]

\* float(text)
FloatOfText(t) ==
    LET s == Strip(t)
        u == Unsigned(s)
        p == IF HasChar(u, ".") THEN SplitFirst(u, ".") ELSE <<u, <<>>>>
    IN  FloatV(Negative(s), DigitsValue(p[1]), DropTrailingZeros(p[2]))

\* str(int)
StrOfInt(n) == IF n < 0 THEN <<"-">> \o DigitsOf(0 - n) ELSE DigitsOf(n)

\* repr(str) for a text without backslashes
ReprText(t) ==
    IF HasChar(t, "'") /\ ~HasChar(t, "\"")
    THEN <<"\"">> \o t \o <<"\"">>
    ELSE <<"'">> \o t \o <<"'">>

\* str(value), as f'{value}' and str(value) format it
StrOf(v) ==
    CASE v.k = "str" -> v.s
      [] v.k = "bool" -> IF v.b THEN <<"T","r","u","e">> ELSE <<"F","a","l","s","e">>
      [] v.k = "int" -> StrOfInt(v.n)
      [] v.k = "float" ->
            (IF v.neg THEN <<"-">> ELSE <<>>) \o DigitsOf(v.int) \o <<".">>
               \o (IF v.frac = <<>> THEN <<"0">> ELSE v.frac)
      [] v.k = "list" ->
            <<"[">> \o Join([i \in 1..Len(v.l) |-> ReprText(v.l[i])], <<",", " ">>) \o <<"]">>
      [] OTHER -> <<"{", "}">>

-----------------------------------------------------------------------------
(* Schema model: sections, fields, defaults.                               *)

\* a field of a schema section; `nested` is its nested_fields list
\* and `description` its description text (<<>> when it has none)
Field(name, type, hasdefault, default, nested, description) ==
    [name |-> name, type |-> type, hasdefault |-> hasdefault, default |-> default,
     nested |-> nested, description |-> description]
NestedField(name, type) == [name |-> name, type |-> type]
Section(haskey, key, fields) == [haskey |-> haskey, key |-> key, fields |-> fields]

\* section.get('key', 'default')
SectionKey(section) == IF section.haskey THEN section.key ELSE <<"d","e","f","a","u","l","t">>

\* the empty dict {}
EmptyRec == <<>>

\* the first section of the schema whose key is section_key, as the lookup
\* loops of the save adapters find it; <<>> when there is none
FindSection(sch, section_key) ==
    LET hits == {i \in 1..Len(sch.sections) : SectionKey(sch.sections[i]) = section_key}
    IN  IF hits = {} THEN <<>>
        ELSE <<sch.sections[CHOOSE i \in hits : \A j \in hits : i <= j]>>

\* the first field of the section named field_name; <<>> when there is none
FindField(section, field_name) ==
    LET hits == {i \in 1..Len(section.fields) : section.fields[i].name = field_name}
    IN  IF hits = {} THEN <<>>
        ELSE <<section.fields[CHOOSE i \in hits : \A j \in hits : i <= j]>>

\* dict built by assigning pairs[1], pairs[2], ... in order: a later
\* assignment to the same key replaces the earlier one
RECURSIVE DictOf(_)
DictOf(pairs) ==
    IF pairs = <<>> THEN EmptyRec
    ELSE LET n == Len(pairs)
             rest == DictOf(SubSeq(pairs, 1, n - 1))
         IN  (pairs[n][1] :> pairs[n][2]) @@ rest

\* one section's part of _get_default_values
DefaultSection(section) ==
    DictOf([i \in 1..Len(section.fields) |->
              <<section.fields[i].name,
                IF section.fields[i].hasdefault THEN section.fields[i].default ELSE StrV(<<>>)>>])

\* _get_default_values
GetDefaultValues(sch) ==
    DictOf([i \in 1..Len(sch.sections) |->
              <<SectionKey(sch.sections[i]), DefaultSection(sch.sections[i])>>])

-----------------------------------------------------------------------------
(* Nested-field codec.                                                     *)

IsQuoteChar(c) == c \in {"\"", "'"}

\* the loop variables of the nested decode before its first character
ScanStart == [params |-> <<>>, cur |-> <<>>, inq |-> FALSE, qc |-> ""]

\* `current_param += char`
ScanAppend(st, c) == [st EXCEPT !.cur = st.cur \o <<c>>]

\* the comma that ends a parameter: the stripped current_param is kept when
\* it is not blank
ScanCut(st) ==
    [st EXCEPT !.params = IF Strip(st.cur) # <<>> THEN st.params \o <<Strip(st.cur)>>
                          ELSE st.params,
               !.cur = <<>>]

\* StepInQuotes with the quote tracking left out: a comma inside a
\* quotation ends a parameter as well
StepInQuotesCutting(st, c) ==
    IF c = st.qc THEN [ScanAppend(st, c) EXCEPT !.inq = FALSE, !.qc = ""]
    ELSE IF c = "," THEN ScanCut(st)
    ELSE ScanAppend(st, c)

\* one character of the loop while in_quotes: the quote character that
\* opened the quotation closes it, every other character is taken
StepInQuotes(st, c) ==
    IF c = st.qc THEN [ScanAppend(st, c) EXCEPT !.inq = FALSE, !.qc = ""]
    ELSE ScanAppend(st, c)

\* one character of the loop while not in_quotes: a quote character opens
\* a quotation, a comma ends the parameter, every other character is taken
StepOutside(st, c) ==
    IF IsQuoteChar(c) THEN [ScanAppend(st, c) EXCEPT !.inq = TRUE, !.qc = c]
    ELSE IF c = "," THEN ScanCut(st)
    ELSE ScanAppend(st, c)

\* the character loop of the nested decode from position i on: st holds
\* params, cur (current_param), inq (in_quotes) and qc (quote_char) after
\* the characters before position i
RECURSIVE ScanParams(_, _, _)
ScanParams(inner, i, st) ==
    IF i > Len(inner) THEN st
    ELSE IF st.inq THEN ScanParams(inner, i + 1, StepInQuotes(st, inner[i]))
    ELSE ScanParams(inner, i + 1, StepOutside(st, inner[i]))

\* the parameters of the content between the parentheses
SplitParams(inner) ==
    LET st == ScanParams(inner, 1, ScanStart)
    IN  IF Strip(st.cur) # <<>> THEN st.params \o <<Strip(st.cur)>> ELSE st.params

\* a list value of configobj is put together again, keeping or adding the
\* parentheses
RejoinList(l) ==
    IF l # <<>> /\ StartsWith(l[1], "(") /\ EndsWith(l[Len(l)], ")")
    THEN Join(l, <<",">>)
    ELSE <<"(">> \o Join(l, <<",">>) \o <<")">>

\* the decode of a nested field's raw value (a text or a list of texts) into
\* its list of key=value tokens
NestedDecode(value) ==
    LET v == IF value.k = "list" THEN StrV(RejoinList(value.l)) ELSE value IN
    IF v.k = "str" /\ StartsWith(v.s, "(") /\ EndsWith(v.s, ")")
    THEN LET inner == SubSeq(v.s, 2, Len(v.s) - 1) IN
         IF inner # <<>> THEN ListV(SplitParams(inner)) ELSE ListV(<<>>)
    ELSE IF v.k = "list" THEN v
    ELSE ListV(<<>>)

\* nested_field.get('type') of the first nested field named key; "" (None)
\* when there is none
NestedFieldType(nested_fields, key) ==
    LET hits == {i \in 1..Len(nested_fields) : nested_fields[i].name = key}
    IN  IF hits = {} THEN ""
        ELSE nested_fields[CHOOSE i \in hits : \A j \in hits : i <= j].type

\* FormatElement without the test for a value that is quoted already
FormatElementAlwaysQuote(element, nested_fields) ==
    IF HasChar(element, "=")
    THEN LET kv == SplitFirst(element, "=") IN
         IF NestedFieldType(nested_fields, kv[1]) = "string" /\ kv[2] # <<>>
         THEN kv[1] \o <<"=", "\"">> \o kv[2] \o <<"\"">>
         ELSE element
    ELSE element

\* one element of a nested value, quoted when its sub-field is a string
FormatElement(element, nested_fields) ==
    IF HasChar(element, "=")
    THEN LET kv == SplitFirst(element, "=")
             key == kv[1]
             value == kv[2]
         IN  IF /\ NestedFieldType(nested_fields, key) = "string"
                /\ value # <<>>
                /\ ~(StartsWith(value, "\"") /\ EndsWith(value, "\""))
             THEN key \o <<"=", "\"">> \o value \o <<"\"">>
             ELSE element
    ELSE element

\* the encode of a nested value (a list of tokens) into the parenthesised text
NestedEncode(l, nested_fields) ==
    <<"(">> \o Join([i \in 1..Len(l) |-> FormatElement(l[i], nested_fields)], <<",">>) \o <<")">>

-----------------------------------------------------------------------------
(* What configobj.ConfigObj reads for the text after "key = " of a line.   *)
(* Modelled for values without '#' whose comma-separated items do not      *)
(* start with a quote unless the item is quoted as a whole.                *)

IsQuoted(t) == Len(t) >= 2 /\ IsQuoteChar(t[1]) /\ t[Len(t)] = t[1]
\* ConfigObj._unquote
Unquote(t) == IF IsQuoted(t) THEN SubSeq(t, 2, Len(t) - 1) ELSE t

\* an item that neither the quoted nor the unquoted alternative of the
\* value pattern matches: empty, or opening a quote it does not close
BadItem(t) == t = <<>> \/ (IsQuoteChar(t[1]) /\ ~IsQuoted(t))

BadV == [k |-> "bad"]

ConfigObjValue(raw) ==
    LET t == Strip(raw) IN
    IF t = <<>> THEN StrV(<<>>)
    ELSE IF IsQuoted(t) /\ ~HasChar(SubSeq(t, 2, Len(t) - 1), t[1]) THEN StrV(Unquote(t))
    ELSE IF ~HasChar(t, ",") THEN (IF BadItem(t) THEN BadV ELSE StrV(t))
    ELSE LET pieces == SplitAll(t, ",")
             items == [i \in 1..Len(pieces) |-> Strip(pieces[i])]
             \* a trailing comma ends a list and adds no item
             kept == IF items[Len(items)] = <<>> THEN SubSeq(items, 1, Len(items) - 1) ELSE items
         IN  IF \E i \in 1..Len(kept) : BadItem(kept[i]) THEN BadV
             ELSE ListV([i \in 1..Len(kept) |-> Unquote(kept[i])])

-----------------------------------------------------------------------------
(* The state of the store when nothing has happened.                       *)

\* the config file does not exist
NoFile == [kind |-> "none"]
\* no write is remembered
NoWrite == [valid |-> FALSE]
\* no call has been made
IdleLast == [op |-> "none"]
\* no schema is in use
NoSchema == [meta |-> FALSE, sections |-> <<>>]

SeqsUpTo(S, n) == UNION {[1..m -> S] : m \in 0..n}


-----------------------------------------------------------------------------
(* Type conversions of the decoders.                                       *)

TrueWords == { <<"t","r","u","e">>, <<"1">>, <<"y","e","s">>, <<"o","n">> }

\* the outcome of a step that may raise: the value, or an exception
Ok(v) == [exc |-> FALSE, v |-> v]
Raise == [exc |-> TRUE, v |-> NoneV]

\* str(value).lower() in ('true', '1', 'yes', 'on')
TrueWord(value) == BoolV(Lower(StrOf(value)) \in TrueWords)

\* int(value)
PyInt(value) ==
    CASE value.k = "str" -> IF IsIntText(value.s) THEN Ok(IntV(IntOfText(value.s))) ELSE Raise
      [] value.k = "int" -> Ok(value)
      [] value.k = "bool" -> Ok(IntV(IF value.b THEN 1 ELSE 0))
      [] value.k = "float" -> Ok(IntV(IF value.neg THEN 0 - value.int ELSE value.int))
      [] OTHER -> Raise

\* float(value)
PyFloat(value) ==
    CASE value.k = "str" -> IF IsFloatText(value.s) THEN Ok(FloatOfText(value.s)) ELSE Raise
      [] value.k = "int" -> Ok(FloatV(value.n < 0, IF value.n < 0 THEN 0 - value.n ELSE value.n, <<>>))
      [] value.k = "bool" -> Ok(FloatV(FALSE, IF value.b THEN 1 ELSE 0, <<>>))
      [] value.k = "float" -> Ok(value)
      [] OTHER -> Raise

\* isinstance(value, bool), isinstance(value, int), isinstance(value, (int, float))
IsBool(value) == value.k = "bool"
IsInt(value) == value.k \in {"int", "bool"}
IsNumber(value) == value.k \in {"int", "bool", "float"}

\* the conversion of a plain field by the type of its default, as
\* _parse_with_configobj does it: every value is converted
ConvertByDefault(field, value) ==
    IF ~field.hasdefault THEN Ok(value)
    ELSE CASE field.default.k = "bool" -> Ok(TrueWord(value))
           [] field.default.k = "int" -> PyInt(value)
           [] field.default.k = "float" -> PyFloat(value)
           [] OTHER -> Ok(value)

\* the same in _parse_with_json and _parse_with_toml: a value that has the
\* type already is kept
ConvertNative(field, value) ==
    IF ~field.hasdefault THEN Ok(value)
    ELSE CASE field.default.k = "bool" /\ ~IsBool(value) -> Ok(TrueWord(value))
           [] field.default.k = "int" /\ ~IsInt(value) -> PyInt(value)
           [] field.default.k = "float" /\ ~IsNumber(value) -> PyFloat(value)
           [] OTHER -> Ok(value)

\* PropertiesConvert without the conversions: the text is kept
PropertiesKeepText(field_type, value) == Ok(StrV(value))

\* the conversion of a properties value by the type of its field; a
\* ValueError of both int() and float() is the exception
PropertiesConvert(field_type, value) ==
    CASE field_type = "boolean" -> Ok(BoolV(Lower(value) \in TrueWords))
      [] field_type = "number" ->
            IF IsIntText(value) THEN Ok(IntV(IntOfText(value)))
            ELSE IF IsFloatText(value) THEN Ok(FloatOfText(value))
            ELSE Raise
      [] OTHER -> Ok(StrV(value))

\* the truth value of a Python value
Truthy(v) ==
    CASE v.k = "bool" -> v.b
      [] v.k = "int" -> v.n # 0
      [] v.k = "float" -> v.int # 0 \/ v.frac # <<>>
      [] v.k = "str" -> v.s # <<>>
      [] v.k = "list" -> v.l # <<>>
      [] v.k = "obj" -> v.o # <<>>
      [] OTHER -> FALSE

-----------------------------------------------------------------------------
(* The config file.  A file has a kind and a content:                      *)
(*   "ini"   body: section -> key -> what configobj reads for the value    *)
(*           (a text, a list of texts, or BadV for a line it rejects);     *)
(*   "props" lines: the lines of the file;                                 *)
(*   "json", "yaml", "toml"  doc: the document, key -> entry, an entry     *)
(*           being a table (section) or a value;                           *)
(*   "junk"  bytes that are not UTF-8 text: every read of the file raises; *)
(*   "locked" a file this process may neither read nor write: every open   *)
(*           of it raises.                                                 *)

IniFile(body) == [kind |-> "ini", body |-> body]
PropsFile(lines) == [kind |-> "props", lines |-> lines]
DocFile(kind, doc) == [kind |-> kind, doc |-> doc]

JunkFile == [kind |-> "junk"]
LockedFile == [kind |-> "locked"]

\* `open(config_path, 'r', encoding='utf-8')` and the read after it raise
Unreadable(f) == f.kind \in {"junk", "locked"}

\* a table of a document: field name -> value
Table(m) == [k |-> "table", m |-> m]

\* os.path.exists(full_config_path)
FileExists(f) == f.kind # "none"

\* os.path.getsize(full_config_path) = 0: toml.dump of an empty document
\* writes nothing; every other adapter writes at least a line
FileSizeZero(f) == f.kind = "toml" /\ DOMAIN f.doc = {}

\* the keys of the supported_parsers registry
SupportedParsers == {"configobj", "pyhocon", "ruamel.yaml", "properties", "json", "toml"}

\* the kind of file an adapter writes, and reads
KindOf(fmt) ==
    CASE fmt = "configobj" -> "ini"
      [] fmt = "properties" -> "props"
      [] fmt = "ruamel.yaml" -> "yaml"
      [] fmt = "toml" -> "toml"
      [] OTHER -> "json"

-----------------------------------------------------------------------------
(* Encoders.  Each returns [ok, file]: what the adapter returns and the    *)
(* file it leaves.  `order` is the order in which config_data.items()      *)
(* yields the sections.                                                    *)

Saved(f) == [ok |-> TRUE, file |-> f]
NotSaved(f) == [ok |-> FALSE, file |-> f]

\* `with open(config_path, 'w') as f: ...` of an adapter: the file is replaced
\* by `new`; an open that raises leaves the file and the adapter's except
\* clause returns False
WriteFile(f, new) == IF f.kind = "locked" THEN NotSaved(f) ELSE Saved(new)

\* the schema of a field of the record: <<field>> or <<>>
FieldSchema(sch, section_key, field_name) ==
    LET sec == FindSection(sch, section_key) IN
    IF sec = <<>> THEN <<>> ELSE FindField(sec[1], field_name)

IsNestedField(sch, section_key, field_name) ==
    LET fs == FieldSchema(sch, section_key, field_name) IN
    fs # <<>> /\ fs[1].type = "nested"

\* has_nested_fields of _save_with_configobj
HasNestedFields(rec, sch) ==
    \E sk \in DOMAIN rec : \E fn \in DOMAIN rec[sk] : IsNestedField(sch, sk, fn)

\* the text _save_with_raw_write writes after "field_name = "
RawText(sch, section_key, field_name, value) ==
    IF IsNestedField(sch, section_key, field_name) /\ value.k = "list"
    THEN NestedEncode(value.l, FieldSchema(sch, section_key, field_name)[1].nested)
    ELSE StrOf(value)

\* _save_with_raw_write: the file is written anew from the record
SaveWithRawWrite(f, rec, sch) ==
    WriteFile(f, IniFile([sk \in DOMAIN rec |->
                     [fn \in DOMAIN rec[sk] |-> ConfigObjValue(RawText(sch, sk, fn, rec[sk][fn]))]]))

\* configobj rejects the file: it cannot read it, or a line of it
IniUnreadable(f) ==
    \/ Unreadable(f)
    \/ f.kind = "ini" /\ \E sk \in DOMAIN f.body : \E fn \in DOMAIN f.body[sk] : f.body[sk][fn] = BadV

\* the plain-field branch of _save_with_configobj: the record is merged into
\* what the file holds
SaveWithConfigobjMerge(f, rec) ==
    IF FileExists(f) /\ IniUnreadable(f) THEN NotSaved(f)
    ELSE LET old == IF FileExists(f) THEN f.body ELSE EmptyRec
             merged == [sk \in DOMAIN old \cup DOMAIN rec |->
                          IF sk \notin DOMAIN rec THEN old[sk]
                          ELSE LET was == IF sk \in DOMAIN old THEN old[sk] ELSE EmptyRec IN
                               [fn \in DOMAIN was \cup DOMAIN rec[sk] |->
                                  IF fn \in DOMAIN rec[sk] THEN StrV(StrOf(rec[sk][fn]))
                                  ELSE was[fn]]]
         IN  Saved(IniFile(merged))

\* SaveWithConfigobj without the has_nested_fields test: the file is always
\* written anew
SaveWithConfigobjAnew(f, rec, sch) == SaveWithRawWrite(f, rec, sch)

\* _save_with_configobj
SaveWithConfigobj(f, rec, sch) ==
    IF HasNestedFields(rec, sch) THEN SaveWithRawWrite(f, rec, sch)
    ELSE SaveWithConfigobjMerge(f, rec)

\* a section of the record as a table of a document, values as they are
RawTable(section_data) == Table(section_data)

\* _save_with_yaml: yaml.dump(config_data)
SaveWithYaml(f, rec, sch) == WriteFile(f, DocFile("yaml", [sk \in DOMAIN rec |-> RawTable(rec[sk])]))

\* _save_with_pyhocon: json.dump(config_data)
SaveWithPyhocon(f, rec, sch) == WriteFile(f, DocFile("json", [sk \in DOMAIN rec |-> RawTable(rec[sk])]))

\* the value of a key=value element, typed as _save_with_json types it
TypedElementValue(text) ==
    LET value == IF StartsWith(text, "\"") /\ EndsWith(text, "\"")
                 THEN SubSeq(text, 2, Len(text) - 1) ELSE text
    IN  IF Lower(value) \in { <<"t","r","u","e">>, <<"f","a","l","s","e">> }
        THEN BoolV(Lower(value) = <<"t","r","u","e">>)
        ELSE IF AllDigits(value) THEN IntV(DigitsValue(value))
        ELSE IF HasChar(value, ".") /\ AllDigits(SelectSeq(value, LAMBDA c : c # "."))
        THEN (IF IsFloatText(value) THEN FloatOfText(value) ELSE StrV(value))
        ELSE StrV(value)

\* nested_obj[key] = value: the key keeps its place when it is there already
ObjAssign(o, key, value) ==
    IF \E i \in 1..Len(o) : o[i][1] = key
    THEN [i \in 1..Len(o) |-> IF o[i][1] = key THEN <<key, value>> ELSE o[i]]
    ELSE Append(o, <<key, value>>)

\* the object a nested list becomes: the elements without '=' are left out
RECURSIVE NestedObject(_)
NestedObject(l) ==
    IF l = <<>> THEN <<>>
    ELSE LET n == Len(l)
             rest == NestedObject(SubSeq(l, 1, n - 1))
         IN  IF HasChar(l[n], "=")
             THEN ObjAssign(rest, SplitFirst(l[n], "=")[1], TypedElementValue(SplitFirst(l[n], "=")[2]))
             ELSE rest

\* a section of the record as _save_with_json and _save_with_toml process it
ProcessedTable(sch, section_key, section_data) ==
    Table([fn \in DOMAIN section_data |->
             IF IsNestedField(sch, section_key, fn) /\ section_data[fn].k = "list"
             THEN ObjV(NestedObject(section_data[fn].l))
             ELSE section_data[fn]])

\* _save_with_json
SaveWithJson(f, rec, sch) ==
    WriteFile(f, DocFile("json", [sk \in DOMAIN rec |-> ProcessedTable(sch, sk, rec[sk])]))

\* has_key_in_schema of _save_with_toml
HasKeyInSchema(sch, section_key) ==
    LET sec == FindSection(sch, section_key) IN sec # <<>> /\ sec[1].haskey

\* final_data_to_dump of _save_with_toml after the sections order[1..n]
RECURSIVE TomlDocument(_, _, _)
TomlDocument(rec, sch, order) ==
    IF order = <<>> THEN EmptyRec
    ELSE LET n == Len(order)
             sk == order[n]
             before == TomlDocument(rec, sch, SubSeq(order, 1, n - 1))
             processed == ProcessedTable(sch, sk, rec[sk])
         IN  IF HasKeyInSchema(sch, sk)
             THEN (sk :> processed) @@ before
             ELSE processed.m @@ before

\* _save_with_toml
SaveWithToml(f, rec, sch, order) ==
    WriteFile(f, DocFile("toml", TomlDocument(rec, sch, order)))

PropsHeader ==
    << <<"#"," ","M","i","n","e","c","r","a","f","t"," ","B","e","d","r","o","c","k"," ",
         "S","e","r","v","e","r"," ","C","o","n","f","i","g","u","r","a","t","i","o","n">>,
       <<"#"," ","G","e","n","e","r","a","t","e","d"," ","b","y"," ",
         "G","a","m","e","S","e","r","v","e","r","M","a","n","a","g","e","r">>,
       <<>> >>

\* the text _save_with_properties writes after "field_name="
PropsFormat(field, value) ==
    IF field.type = "boolean"
    THEN (IF Truthy(value) THEN <<"t","r","u","e">> ELSE <<"f","a","l","s","e">>)
    ELSE StrOf(value)

\* the lines _save_with_properties writes for one field of the first section
PropsFieldLines(field, section_data) ==
    IF field.name \in DOMAIN section_data
    THEN (IF field.description # <<>>
          THEN << <<"#", " ">> \o field.name \o <<":", " ">> \o field.description >>
          ELSE <<>>)
         \o << field.name \o <<"=">> \o PropsFormat(field, section_data[field.name]), <<>> >>
    ELSE <<>>

\* _save_with_properties
SaveWithProperties(f, rec, sch) ==
    IF sch.sections = <<>> THEN NotSaved(f)
    ELSE LET section == sch.sections[1]
             section_key == SectionKey(section)
         IN  WriteFile(f, PropsFile(
                 PropsHeader \o
                 (IF section_key \in DOMAIN rec
                  THEN Concat([i \in 1..Len(section.fields) |->
                                 PropsFieldLines(section.fields[i], rec[section_key])])
                  ELSE <<>>)))

-----------------------------------------------------------------------------
(* Decoders.  Each returns the record; an exception inside the adapter is  *)
(* caught by the adapter and gives the empty record.                       *)

\* LookupField filling in the schema default of a field the source lacks
LookupFieldOrDefault(source, field) ==
    IF field.name \in DOMAIN source THEN <<source[field.name]>>
    ELSE IF field.hasdefault THEN <<field.default>> ELSE <<>>

\* `if field_name in source: value = source[field_name]`: <<value>>, or <<>>
\* for a field the source does not hold
LookupField(source, field) ==
    IF field.name \in DOMAIN source THEN <<source[field.name]>> ELSE <<>>

\* one field of _parse_with_configobj
ConfigobjField(field, value) ==
    IF field.type = "nested" THEN Ok(NestedDecode(value)) ELSE ConvertByDefault(field, value)

\* the members of a set in some order
RECURSIVE SeqOfSet(_)
SeqOfSet(S) == IF S = {} THEN <<>> ELSE LET x == CHOOSE y \in S : TRUE IN <<x>> \o SeqOfSet(S \ {x})

\* value.items() of a dict of a document
DictItems(value) ==
    IF value.k = "obj" THEN value.o
    ELSE LET keys == SeqOfSet(DOMAIN value.m) IN [i \in 1..Len(keys) |-> <<keys[i], value.m[keys[i]]>>]

IsDict(value) == value.k \in {"obj", "table"}

\* the key=value element made of one member of a nested object
ElementOfMember(key, v) ==
    IF v.k = "str" /\ HasChar(v.s, " ")
    THEN key \o <<"=", "\"">> \o v.s \o <<"\"">>
    ELSE key \o <<"=">> \o StrOf(v)

\* a nested field of a structured document: an object becomes the list of
\* its key=value elements, a list is kept, anything else is the empty list
NestedOfDocument(value) ==
    IF IsDict(value)
    THEN ListV([i \in 1..Len(DictItems(value)) |->
                  ElementOfMember(DictItems(value)[i][1], DictItems(value)[i][2])])
    ELSE IF value.k = "list" THEN value
    ELSE ListV(<<>>)

\* one field of _parse_with_json and _parse_with_toml
DocumentField(field, value) ==
    IF field.type = "nested" THEN Ok(NestedOfDocument(value)) ELSE ConvertNative(field, value)

\* one field of _parse_with_pyhocon: the value as it is
HoconField(field, value) == Ok(value)

\* SectionFields taking everything the source holds
SectionFieldsWhole(section, source, adapter) == Ok(source)

\* the fields of one schema section decoded from `source`, in schema order,
\* each value treated as the adapter named treats it
SectionFields(section, source, adapter) ==
    LET found == SelectSeq(section.fields, LAMBDA fld : LookupField(source, fld) # <<>>)
        outcome == [i \in 1..Len(found) |->
                      CASE adapter = "configobj" ->
                             ConfigobjField(found[i], LookupField(source, found[i])[1])
                        [] adapter = "pyhocon" ->
                             HoconField(found[i], LookupField(source, found[i])[1])
                        [] OTHER ->
                             DocumentField(found[i], LookupField(source, found[i])[1])]
    IN  IF \E i \in 1..Len(found) : outcome[i].exc THEN Raise
        ELSE Ok(DictOf([i \in 1..Len(found) |-> <<found[i].name, outcome[i].v>>]))

\* the record built section by section, in schema order: result[section_key]
\* is set anew for every section; outcome[i] are the decoded fields of the
\* i-th section
RecordOf(sch, outcome) ==
    IF \E i \in 1..Len(sch.sections) : outcome[i].exc THEN Raise
    ELSE Ok(DictOf([i \in 1..Len(sch.sections) |->
                      <<SectionKey(sch.sections[i]), outcome[i].v>>]))

\* `except Exception: return {}` of the adapters
RecordOrEmpty(outcome) == IF outcome.exc THEN EmptyRec ELSE outcome.v

\* _parse_with_configobj
ParseWithConfigobj(f, sch) ==
    IF IniUnreadable(f) THEN EmptyRec
    ELSE LET config == IF f.kind = "ini" THEN f.body ELSE EmptyRec IN
         RecordOrEmpty(RecordOf(sch, [i \in 1..Len(sch.sections) |->
            IF SectionKey(sch.sections[i]) \in DOMAIN config
            THEN SectionFields(sch.sections[i], config[SectionKey(sch.sections[i])], "configobj")
            ELSE Ok(EmptyRec)]))

\* the dict in which the fields of a section are looked up, when the
\* section's entry of the document is `entry`: `field_name in entry` raises
\* for a number, a boolean and None
FieldSource(entry, section) ==
    IF section.fields = <<>> THEN Ok(EmptyRec)
    ELSE CASE entry.k = "table" -> Ok(entry.m)
           [] entry.k = "obj" -> Ok(DictOf(entry.o))
           [] entry.k \in {"str", "list"} -> Ok(EmptyRec)
           [] OTHER -> Raise

\* SectionFields, for a source that may raise
FieldsFrom(section, src, adapter) ==
    IF src.exc THEN Raise ELSE SectionFields(section, src.v, adapter)

\* _parse_with_json
ParseWithJson(f, sch) ==
    IF f.kind # "json" THEN EmptyRec
    ELSE RecordOrEmpty(RecordOf(sch, [i \in 1..Len(sch.sections) |->
            IF SectionKey(sch.sections[i]) \in DOMAIN f.doc
            THEN FieldsFrom(sch.sections[i],
                            FieldSource(f.doc[SectionKey(sch.sections[i])], sch.sections[i]),
                            "json")
            ELSE Ok(EmptyRec)]))

\* config_source of _parse_with_yaml and _parse_with_toml: the section's
\* entry when the section declares a key, the document root when not
ConfigSource(doc, section) ==
    IF section.haskey
    THEN (IF section.key \in DOMAIN doc THEN FieldSource(doc[section.key], section) ELSE Ok(EmptyRec))
    ELSE Ok(doc)

\* _parse_with_toml
ParseWithToml(f, sch) ==
    IF f.kind # "toml" THEN EmptyRec
    ELSE RecordOrEmpty(RecordOf(sch, [i \in 1..Len(sch.sections) |->
            FieldsFrom(sch.sections[i], ConfigSource(f.doc, sch.sections[i]), "toml")]))

\* one field of _parse_with_yaml: the value is read and not stored
YamlFields(section, src) == IF src.exc THEN Raise ELSE Ok(EmptyRec)

\* _parse_with_yaml
ParseWithYaml(f, sch) ==
    IF f.kind # "yaml" THEN EmptyRec
    ELSE RecordOrEmpty(RecordOf(sch, [i \in 1..Len(sch.sections) |->
            YamlFields(sch.sections[i], ConfigSource(f.doc, sch.sections[i]))]))

\* _parse_with_pyhocon
ParseWithPyhocon(f, sch) ==
    IF f.kind # "json" THEN EmptyRec
    ELSE RecordOrEmpty(RecordOf(sch, [i \in 1..Len(sch.sections) |->
            IF SectionKey(sch.sections[i]) \in DOMAIN f.doc
            THEN FieldsFrom(sch.sections[i],
                            FieldSource(f.doc[SectionKey(sch.sections[i])], sch.sections[i]),
                            "pyhocon")
            ELSE Ok(EmptyRec)]))

\* one line of a properties file: the entries it adds to the section
\* (<<>>, or one <<key, value>>)
PropsLineEntry(section, raw_line) ==
    LET line == Strip(raw_line) IN
    IF line = <<>> \/ line[1] = "#" \/ line[1] = "!" THEN <<>>
    ELSE IF ~HasChar(line, "=") THEN <<>>
    ELSE LET key == Strip(SplitFirst(line, "=")[1])
             value == Strip(SplitFirst(line, "=")[2])
             field_config == FindField(section, key)
         IN  IF field_config = <<>> THEN <<>>
             ELSE LET converted == PropertiesConvert(field_config[1].type, value) IN
                  << <<key, IF converted.exc THEN StrV(value) ELSE converted.v>> >>

\* ParseWithProperties giving up at the first line without '='
ParseWithPropertiesStopping(f, sch) ==
    IF sch.sections = <<>> \/ Unreadable(f) THEN EmptyRec
    ELSE LET section == sch.sections[1]
             lines == IF f.kind = "props" THEN f.lines ELSE <<>>
             bad == {i \in 1..Len(lines) :
                       /\ Strip(lines[i]) # <<>>
                       /\ Strip(lines[i])[1] \notin {"#", "!"}
                       /\ ~HasChar(lines[i], "=")}
             read == IF bad = {} THEN lines
                     ELSE SubSeq(lines, 1, (CHOOSE i \in bad : \A k \in bad : i <= k) - 1)
         IN  (SectionKey(section) :>
                DictOf(Concat([i \in 1..Len(read) |-> PropsLineEntry(section, read[i])])))

\* _parse_with_properties
ParseWithProperties(f, sch) ==
    IF sch.sections = <<>> \/ Unreadable(f) THEN EmptyRec
    ELSE LET section == sch.sections[1]
             lines == IF f.kind = "props" THEN f.lines ELSE <<>>
         IN  (SectionKey(section) :>
                DictOf(Concat([i \in 1..Len(lines) |-> PropsLineEntry(section, lines[i])])))

-----------------------------------------------------------------------------
(* Config store: save_game_config and read_game_config.                    *)

\* the dispatch of save_game_config to the adapter of a supported format
SaveAdapter(fmt, f, rec, sch, order) ==
    CASE fmt = "configobj" -> SaveWithConfigobj(f, rec, sch)
      [] fmt = "ruamel.yaml" -> SaveWithYaml(f, rec, sch)
      [] fmt = "pyhocon" -> SaveWithPyhocon(f, rec, sch)
      [] fmt = "properties" -> SaveWithProperties(f, rec, sch)
      [] fmt = "json" -> SaveWithJson(f, rec, sch)
      [] fmt = "toml" -> SaveWithToml(f, rec, sch, order)

\* the dispatch of read_game_config through supported_parsers
ParseAdapter(fmt, f, sch) ==
    CASE fmt = "configobj" -> ParseWithConfigobj(f, sch)
      [] fmt = "pyhocon" -> ParseWithPyhocon(f, sch)
      [] fmt = "ruamel.yaml" -> ParseWithYaml(f, sch)
      [] fmt = "properties" -> ParseWithProperties(f, sch)
      [] fmt = "json" -> ParseWithJson(f, sch)
      [] fmt = "toml" -> ParseWithToml(f, sch)

\* AccessDenied with the permission check left out
AccessNeverDenied(writable) == FALSE

\* `if not os.access(config_dir, os.W_OK)`
AccessDenied(writable) == ~writable

\* the check after the adapter reported `result`: the file is looked for;
\* its size is logged and not tested
VerifyWritten(result, f) == IF result THEN FileExists(f) ELSE FALSE

\* SaveBody without the final else of the dispatch: a format id that is not
\* registered is written as the default one, configobj
SaveBodyAnyFormat(env, sch, rec, order, fmt) ==
    LET stay == [exc |-> FALSE, ok |-> FALSE, enc |-> 0, file |-> env.file,
                 dirExists |-> env.dirExists]
        adapter == IF fmt \in SupportedParsers THEN fmt ELSE "configobj"
    IN  IF ~sch.meta THEN [stay EXCEPT !.exc = TRUE]
        ELSE IF ~env.dirExists /\ ~env.dirCreatable THEN [stay EXCEPT !.exc = TRUE]
        ELSE IF AccessDenied(env.dirWritable) THEN [stay EXCEPT !.dirExists = TRUE]
        ELSE LET result == IF ~FileExists(env.file) \/ fmt \in SupportedParsers
                              \/ env.file.kind = "ini" \/ Unreadable(env.file)
                           THEN SaveAdapter(adapter, env.file, rec, sch, order)
                           ELSE NotSaved(env.file)
             IN  [exc |-> FALSE, ok |-> VerifyWritten(result.ok, result.file), enc |-> 1,
                  file |-> result.file, dirExists |-> TRUE]

\* the try block of save_game_config: what it returns (ok), whether it
\* raises (exc), how often it called an adapter (enc), and the file and
\* directory it leaves
SaveBody(env, sch, rec, order, fmt) ==
    LET stay == [exc |-> FALSE, ok |-> FALSE, enc |-> 0, file |-> env.file,
                 dirExists |-> env.dirExists]
    IN  IF ~sch.meta THEN [stay EXCEPT !.exc = TRUE]
        ELSE IF ~env.dirExists /\ ~env.dirCreatable THEN [stay EXCEPT !.exc = TRUE]
        ELSE IF AccessDenied(env.dirWritable) THEN [stay EXCEPT !.dirExists = TRUE]
        ELSE IF fmt \notin SupportedParsers THEN [stay EXCEPT !.dirExists = TRUE]
        ELSE LET result == SaveAdapter(fmt, env.file, rec, sch, order) IN
             [exc |-> FALSE, ok |-> VerifyWritten(result.ok, result.file), enc |-> 1,
              file |-> result.file, dirExists |-> TRUE]

\* SaveCaught without the except clause: the exception reaches the caller
SaveUncaught(body) ==
    [ok |-> ~body.exc /\ body.ok, raised |-> body.exc, enc |-> body.enc, file |-> body.file,
     dirExists |-> body.dirExists]

\* `except Exception: return False` of save_game_config
SaveCaught(body) ==
    [ok |-> ~body.exc /\ body.ok, raised |-> FALSE, enc |-> body.enc, file |-> body.file,
     dirExists |-> body.dirExists]

\* save_game_config
SaveGameConfig(env, sch, rec, order, fmt) == SaveCaught(SaveBody(env, sch, rec, order, fmt))

\* the section keys of a schema in the order of config_data.items() for the
\* record of defaults: each key where it comes first
RECURSIVE KeysInOrder(_, _)
KeysInOrder(sections, seen) ==
    IF sections = <<>> THEN <<>>
    ELSE IF SectionKey(sections[1]) \in seen THEN KeysInOrder(Tail(sections), seen)
    ELSE <<SectionKey(sections[1])>> \o KeysInOrder(Tail(sections), seen \cup {SectionKey(sections[1])})

\* CreationFailed with the early return left out
CreationNeverFailed(missing, saved_ok) == FALSE

\* the file was missing and save_game_config did not create it: `return {}`
CreationFailed(missing, saved_ok) == missing /\ ~saved_ok

\* the try block of read_game_config: the record it returns (ret), whether
\* it raises (exc), how often adapters were called to encode (enc) and to
\* decode (dec), and the file and directory it leaves
ReadBody(env, sch, fmt) ==
    LET stay == [exc |-> FALSE, ret |-> EmptyRec, enc |-> 0, dec |-> 0, file |-> env.file,
                 dirExists |-> env.dirExists]
    IN  IF ~sch.meta THEN [stay EXCEPT !.exc = TRUE]
        ELSE LET missing == ~FileExists(env.file)
                 saved == SaveGameConfig(env, sch, GetDefaultValues(sch),
                                         KeysInOrder(sch.sections, {}), fmt)
                 now == IF missing
                        THEN [stay EXCEPT !.enc = saved.enc, !.file = saved.file,
                                          !.dirExists = saved.dirExists]
                        ELSE stay
             IN  IF missing /\ saved.raised THEN [now EXCEPT !.exc = TRUE]
                 ELSE IF CreationFailed(missing, saved.ok) THEN now
                 ELSE IF fmt \in SupportedParsers
                 THEN [now EXCEPT !.ret = ParseAdapter(fmt, now.file, sch), !.dec = 1]
                 ELSE now

\* ReadCaught without the except clause: the exception reaches the caller
ReadUncaught(body) ==
    [ret |-> IF body.exc THEN EmptyRec ELSE body.ret, raised |-> body.exc, enc |-> body.enc,
     dec |-> body.dec, file |-> body.file, dirExists |-> body.dirExists]

\* `except Exception: return {}` of read_game_config
ReadCaught(body) ==
    [ret |-> IF body.exc THEN EmptyRec ELSE body.ret, raised |-> FALSE, enc |-> body.enc,
     dec |-> body.dec, file |-> body.file, dirExists |-> body.dirExists]

\* ReadGameConfig without the os.path.exists test: the defaults are saved
\* at every call
ReadGameConfigRewriting(env, sch, fmt) ==
    LET r == ReadCaught(ReadBody([env EXCEPT !.file = NoFile], sch, fmt)) IN
    IF r.enc = 0 THEN [r EXCEPT !.file = env.file] ELSE r

\* read_game_config
ReadGameConfig(env, sch, fmt) == ReadCaught(ReadBody(env, sch, fmt))

-----------------------------------------------------------------------------
(* The schemas, records and file contents of the runs.                     *)

\* the nested_fields of the nested field whose values are encoded
CodecNestedFields ==
    << NestedField(<<"n","a","m","e">>, "string"),
       NestedField(<<"l","v","l">>, "number"),
       NestedField(<<"p","v","p">>, "boolean") >>

TokName == <<"n","a","m","e","=","\"","a"," ","b","\"">>
TokLvl == <<"l","v","l","=","2">>
TokPvp == <<"p","v","p","=","t","r","u","e">>


N_world == <<"w","o","r","l","d">>
N_default == <<"d","e","f","a","u","l","t">>
N_net == <<"n","e","t">>
N_lvl == <<"l","v","l">>
N_pvp == <<"p","v","p">>
N_name == <<"n","a","m","e">>
N_opts == <<"o","p","t","s">>
N_port == <<"p","o","r","t">>
N_rate == <<"r","a","t","e">>

ExampleNested == ListV(<<TokName, TokLvl, TokPvp>>)

\* one section with the key "world": a number, a boolean, a string without
\* default and a nested field
SchemaWorld ==
    [meta |-> TRUE,
     sections |-> <<
        Section(TRUE, N_world, <<
            Field(N_lvl, "number", TRUE, IntV(1), <<>>, <<>>),
            Field(N_pvp, "boolean", TRUE, BoolV(TRUE), <<>>, <<>>),
            Field(N_name, "string", FALSE, NoneV, <<>>, <<>>),
            Field(N_opts, "nested", TRUE, ExampleNested, CodecNestedFields, <<>>) >>) >>]

\* a section without key (an integer with a description, a float) and a
\* section with the key "net"
SchemaFlat ==
    [meta |-> TRUE,
     sections |-> <<
        Section(FALSE, <<>>, <<
            Field(N_lvl, "number", TRUE, IntV(1), <<>>, <<"d","e","s","c">>),
            Field(N_rate, "number", TRUE, FloatV(FALSE, 1, <<"5">>), <<>>, <<>>) >>),
        Section(TRUE, N_net, <<
            Field(N_port, "number", TRUE, IntV(7), <<>>, <<>>) >>) >>]

\* two sections without key, which both resolve to "default", around a
\* section with the key "net"; the first section has a field named net too
SchemaTwin ==
    [meta |-> TRUE,
     sections |-> <<
        Section(FALSE, <<>>, <<
            Field(N_lvl, "number", TRUE, IntV(1), <<>>, <<>>),
            Field(N_net, "number", TRUE, IntV(7), <<>>, <<>>) >>),
        Section(TRUE, N_net, <<
            Field(N_port, "number", TRUE, IntV(7), <<>>, <<>>) >>),
        Section(FALSE, <<>>, <<
            Field(N_pvp, "boolean", TRUE, BoolV(TRUE), <<>>, <<>>) >>) >>]

\* a schema without meta.config_file
SchemaNoMeta == NoSchema

Schemas == {SchemaWorld, SchemaFlat, SchemaTwin, SchemaNoMeta}

\* the values a record given to write holds for a field
ValueChoices(field) ==
    CASE field.name = N_lvl -> {IntV(7)}
      [] field.name = N_pvp -> {BoolV(TRUE), BoolV(FALSE)}
      [] field.name = N_name -> {StrV(<<"a"," ","b">>)}
      [] field.name = N_opts -> {ExampleNested}
      [] field.name = N_rate -> {FloatV(FALSE, 2, <<"2","5">>)}
      [] OTHER -> {IntV(7)}

\* the dicts over some of the fields, each field with one of its values
RECURSIVE SectionChoices(_)
SectionChoices(fields) ==
    IF fields = <<>> THEN {EmptyRec}
    ELSE LET rest == SectionChoices(Tail(fields)) IN
         rest \cup {(fields[1].name :> v) @@ r : v \in ValueChoices(fields[1]), r \in rest}

\* the records over some of the sections
RECURSIVE RecordsOver(_)
RecordsOver(sections) ==
    IF sections = <<>> THEN {EmptyRec}
    ELSE LET rest == RecordsOver(Tail(sections)) IN
         rest \cup {(SectionKey(sections[1]) :> d) @@ r : d \in SectionChoices(sections[1].fields), r \in rest}

RecordsWorld == RecordsOver(SchemaWorld.sections)
RecordsFlat == RecordsOver(SchemaFlat.sections)
RecordsTwin ==
    { EmptyRec,
      (N_default :> ((N_lvl :> IntV(7)) @@ (N_net :> IntV(7)))) @@ (N_net :> (N_port :> IntV(7))),
      N_default :> (N_lvl :> IntV(7)),
      N_default :> (N_pvp :> BoolV(FALSE)) }

\* the records given to write, per schema
RecordChoices(sch) ==
    IF sch = SchemaWorld THEN RecordsWorld
    ELSE IF sch = SchemaFlat THEN RecordsFlat
    ELSE IF sch = SchemaTwin THEN RecordsTwin
    ELSE {EmptyRec}

\* the orders in which the sections of a record can come
Orders(rec) ==
    LET n == Cardinality(DOMAIN rec) IN
    {o \in [1..n -> DOMAIN rec] : \A i, j \in 1..n : o[i] = o[j] => i = j}

T_abc == <<"a","b","c">>
T_7 == <<"7">>

\* a section file with more than either schema declares: the key port in
\* the section world, the key pvp in the section net
ExtraIni ==
    IniFile((N_world :> ((N_lvl :> StrV(T_7)) @@ (N_port :> StrV(T_7))))
            @@ (N_net :> ((N_port :> StrV(T_7)) @@ (N_pvp :> StrV(<<"o","n">>)))))

\* the same as a structured document
ExtraDoc ==
    (N_world :> Table((N_lvl :> IntV(7)) @@ (N_port :> IntV(7))))
    @@ (N_net :> Table((N_port :> IntV(7)) @@ (N_pvp :> BoolV(TRUE))))

T_a1 == <<"a","=","1">>
T_b2 == <<"b","=","2">>

\* a section file whose nested field is the text a=1, without parentheses
BareIni == IniFile(N_world :> (N_opts :> ConfigObjValue(T_a1)))
\* a section file whose nested field is the text a=1,b=2, which configobj
\* reads as a list
ListIni == IniFile(N_world :> (N_opts :> ConfigObjValue(T_a1 \o <<",">> \o T_b2)))

\* section files as somebody else left them
EditedIni ==
    { IniFile(EmptyRec),
      IniFile(N_world :> ((N_lvl :> StrV(T_abc)) @@ (N_pvp :> StrV(<<"y","e","s">>)))),
      IniFile(N_world :> (N_pvp :> StrV(<<"o","n">>))),
      IniFile(N_world :> ((N_lvl :> StrV(T_7))
                          @@ (N_opts :> ConfigObjValue(<<"(","a","=","\"","x",",","y","\"",",","b","=","2",")">>)))),
      IniFile((N_default :> (N_lvl :> StrV(T_7))) @@ (N_net :> EmptyRec)),
      IniFile(N_default :> ((N_lvl :> StrV(T_7)) @@ (N_rate :> StrV(T_abc)))),
      ExtraIni, BareIni, ListIni }

\* the lines of properties files as somebody else left them
LineChoices ==
    { <<"l","v","l","=","7">>,
      <<"l","v","l","=","a","b","c">>,
      <<"p","v","p","=","t","r","u","e">>,
      <<" ","p","v","p"," ","="," ","Y","E","S"," ">>,
      <<"p","v","p","=","m","a","y","b","e">>,
      <<"!"," ","c">>,
      <<"j","u","n","k">> }

EditedProps == {PropsFile(ls) : ls \in SeqsUpTo(LineChoices, MaxLines)}

\* structured documents as somebody else left them
EditedDocs ==
    { N_world :> Table((N_lvl :> StrV(T_abc)) @@ (N_pvp :> BoolV(FALSE))),
      N_world :> Table(N_pvp :> StrV(<<"y","e","s">>)),
      N_world :> Table((N_lvl :> IntV(7))
                       @@ (N_opts :> ObjV(<< <<N_name, StrV(<<"a"," ","b">>)>>, <<N_pvp, BoolV(TRUE)>> >>))),
      N_default :> Table(N_lvl :> StrV(T_7)),
      (N_lvl :> StrV(T_abc)) @@ (N_net :> Table(N_port :> IntV(7))),
      (N_lvl :> IntV(7)) @@ (N_net :> IntV(7)),
      ExtraDoc,
      N_world :> Table(N_opts :> StrV(T_a1)),
      N_world :> Table(N_opts :> ListV(<<T_a1, T_b2>>)),
      EmptyRec }

EditedFiles ==
    EditedIni \cup EditedProps \cup {JunkFile, LockedFile}
       \cup {DocFile(kind, doc) : kind \in {"json", "yaml", "toml"}, doc \in EditedDocs}

\* the format ids of the calls: the registered ones and one that is not
FormatIds == SupportedParsers \cup {"xml"}

\* the calls of a run read and write the file in the format it has; a file
\* that cannot be read is met by every format
Compatible(f, fmt) ==
    ~FileExists(f) \/ fmt \notin SupportedParsers \/ f.kind = KindOf(fmt) \/ Unreadable(f)

-----------------------------------------------------------------------------
(* The store as a state machine.                                           *)

Env == [dirExists |-> dirExists, dirCreatable |-> dirCreatable, dirWritable |-> dirWritable,
        file |-> file]

\* a step of the surroundings, not a call
EnvLast == [op |-> "env"]

Init ==
    /\ schema \in Schemas
    /\ \/ dirExists = TRUE /\ dirCreatable = TRUE
       \/ dirExists = FALSE /\ dirCreatable \in BOOLEAN
    /\ dirWritable \in BOOLEAN
    /\ file = NoFile
    /\ written = NoWrite
    /\ last = IdleLast
    /\ nval = NoneV
    /\ ntext = <<>>
    /\ nraw = NoneV
    /\ nout = <<>>
    /\ nphase = "idle"

\* read_game_config(server_path, schema, fmt)
Read(fmt) ==
    /\ Compatible(file, fmt)
    /\ \E r \in {ReadGameConfig(Env, schema, fmt)} :
       /\ file' = r.file
       /\ dirExists' = r.dirExists
       /\ last' = [op |-> "read", fmt |-> fmt, ret |-> r.ret, ok |-> FALSE,
                   raised |-> r.raised, enc |-> r.enc, dec |-> r.dec,
                   existed |-> FileExists(file)]
       /\ written' = IF FileExists(file) THEN written ELSE NoWrite
    /\ UNCHANGED <<schema, dirCreatable, dirWritable>>
    /\ UNCHANGED codecVars

\* save_game_config(server_path, schema, rec, fmt), the sections of rec
\* coming in the order `order`
Write(fmt, rec, order) ==
    /\ Compatible(file, fmt)
    /\ \E r \in {SaveGameConfig(Env, schema, rec, order, fmt)} :
       /\ file' = r.file
       /\ dirExists' = r.dirExists
       /\ last' = [op |-> "write", fmt |-> fmt, ret |-> EmptyRec, ok |-> r.ok,
                   raised |-> r.raised, enc |-> r.enc, dec |-> 0,
                   existed |-> FileExists(file)]
       /\ written' = IF r.ok THEN [valid |-> TRUE, rec |-> rec, fmt |-> fmt,
                                   fresh |-> ~FileExists(file)]
                     ELSE IF r.file = file THEN written ELSE NoWrite
    /\ UNCHANGED <<schema, dirCreatable, dirWritable>>
    /\ UNCHANGED codecVars

\* somebody else writes the file
EditFile(f) ==
    /\ dirExists
    /\ dirWritable
    /\ file # f
    /\ file' = f
    /\ written' = NoWrite
    /\ last' = EnvLast
    /\ UNCHANGED <<schema, dirExists, dirCreatable, dirWritable>>
    /\ UNCHANGED codecVars

\* somebody else removes the file
DeleteFile ==
    /\ FileExists(file)
    /\ dirWritable
    /\ file' = NoFile
    /\ written' = NoWrite
    /\ last' = EnvLast
    /\ UNCHANGED <<schema, dirExists, dirCreatable, dirWritable>>
    /\ UNCHANGED codecVars

\* the permission to write into the directory is taken away
RevokeWrite ==
    /\ dirExists
    /\ dirWritable
    /\ dirWritable' = FALSE
    /\ last' = EnvLast
    /\ UNCHANGED <<schema, dirExists, dirCreatable, file, written>>
    /\ UNCHANGED codecVars

Next ==
    \/ \E fmt \in FormatIds : Read(fmt)
    \/ \E fmt \in FormatIds : \E rec \in RecordChoices(schema) : \E order \in Orders(rec) :
          Write(fmt, rec, order)
    \/ \E f \in EditedFiles : EditFile(f)
    \/ DeleteFile
    \/ RevokeWrite

Spec == Init /\ [][Next]_vars

-----------------------------------------------------------------------------
(* The nested-field codec on its own: a NestedValue is encoded to its text,*)
(* a text is handed to decode as the text itself or as the list configobj  *)
(* reads for it, and decode produces the tokens.                           *)

\* the tokens NestedValues are built from: well-formed ones (bare values,
\* quoted values with commas, blanks and the other quote inside, an empty
\* value) and ill-formed ones (a string sub-field left unquoted, a comma
\* outside quotes, a leading blank, a quote left open), and a string
\* sub-field quoted with the single quote
TokSingle == <<"n","a","m","e","=","'","x","'">>

TokenChoices ==
    { TokName, TokLvl, TokPvp, TokSingle,
      <<"n","a","m","e","=","\"","x",",","y","\"">>,
      <<"n","a","m","e","=">>,
      <<"n","a","m","e","=","\"","i","t","'","s","\"">>,
      <<"m","o","t","d","=","'","a",",","b","'">>,
      <<"n","a","m","e","=","p","l","a","i","n">>,
      <<"p","o","s","=","1",",","2">>,
      <<" ","p","v","p","=","t","r","u","e">>,
      <<"o","p","e","n","=","\"","x">> }

NestedValues == SeqsUpTo(TokenChoices, MaxTokens)

\* the pieces the texts given to decode are built from
PieceChoices ==
    { <<"a","=">>, <<"\"">>, <<"'">>, <<"x",",","y">>, <<"\"","x",",","y","\"">>, <<",">>,
      <<"b","=","2">>, <<" ">> }

NestedTexts == { <<"(">> \o Concat(ps) \o <<")">> : ps \in SeqsUpTo(PieceChoices, MaxPieces) }

InitCodec ==
    /\ schema = NoSchema
    /\ dirExists = TRUE
    /\ dirCreatable = TRUE
    /\ dirWritable = TRUE
    /\ file = NoFile
    /\ written = NoWrite
    /\ last = IdleLast
    /\ nraw = NoneV
    /\ nout = <<>>
    /\ \/ /\ nphase = "value"
          /\ nval \in {ListV(l) : l \in NestedValues}
          /\ ntext = <<>>
       \/ /\ nphase = "text"
          /\ nval = NoneV
          /\ ntext \in NestedTexts

\* the nested value is encoded
CodecEncode ==
    /\ nphase = "value"
    /\ ntext' = NestedEncode(nval.l, CodecNestedFields)
    /\ nphase' = "text"
    /\ UNCHANGED <<nval, nraw, nout>>
    /\ UNCHANGED storeVars

\* decode is handed the text
CodecTakeText ==
    /\ nphase = "text"
    /\ nraw' = StrV(ntext)
    /\ nphase' = "raw"
    /\ UNCHANGED <<nval, ntext, nout>>
    /\ UNCHANGED storeVars

\* decode is handed what configobj reads for the text
CodecTakeRead ==
    /\ nphase = "text"
    /\ ConfigObjValue(ntext) # BadV
    /\ nraw' = ConfigObjValue(ntext)
    /\ nphase' = "raw"
    /\ UNCHANGED <<nval, ntext, nout>>
    /\ UNCHANGED storeVars

\* the value is decoded
CodecDecode ==
    /\ nphase = "raw"
    /\ nout' = NestedDecode(nraw).l
    /\ nphase' = "decoded"
    /\ UNCHANGED <<nval, ntext, nraw>>
    /\ UNCHANGED storeVars

NextCodec == CodecEncode \/ CodecTakeText \/ CodecTakeRead \/ CodecDecode

SpecCodec == InitCodec /\ [][NextCodec]_vars

-----------------------------------------------------------------------------
(* Claims about the nested-field codec (checked under SpecCodec).          *)

\* the quote that is open after the first n characters of t ("" when none):
\* a quote character opens a quotation when none is open, and only the same
\* character closes it
RECURSIVE QuoteAfter(_, _)
QuoteAfter(t, n) ==
    IF n = 0 THEN ""
    ELSE LET q == QuoteAfter(t, n - 1) IN
         IF q = "" THEN (IF IsQuoteChar(t[n]) THEN t[n] ELSE "")
         ELSE IF t[n] = q THEN "" ELSE q

\* the positions of the commas of t that are outside every quotation
OutsideCommas(t) == {i \in 1..Len(t) : t[i] = "," /\ QuoteAfter(t, i - 1) = ""}

\* the stretches of t between the positions of cuts (and the two ends), in
\* order, trimmed, the blank ones left out
RECURSIVE SegmentsFrom(_, _, _)
SegmentsFrom(t, from, cuts) ==
    LET later == {c \in cuts : c >= from}
        stop == IF later = {} THEN Len(t) + 1 ELSE CHOOSE c \in later : \A d \in later : c <= d
        seg == Strip(SubSeq(t, from, stop - 1))
        head == IF seg = <<>> THEN <<>> ELSE <<seg>>
    IN  IF later = {} THEN head ELSE head \o SegmentsFrom(t, stop + 1, cuts)

\* the text decode works on: the text handed over, or the list put together
DecodedText == IF nraw.k = "list" THEN RejoinList(nraw.l) ELSE nraw.s
DecodedInner == SubSeq(DecodedText, 2, Len(DecodedText) - 1)

ExampleText == <<"(","a","=","\"","x",",","y","\"",",","b","=","2",")">>
ExampleTokens == << <<"a","=","\"","x",",","y","\"">>, <<"b","=","2">> >>

\* C6: decode cuts the content between the outer parentheses at the commas
\* outside quotations and nowhere else (the tokens are the trimmed stretches
\* between those commas, in order), so that (a="x,y",b=2) decodes to the two
\* tokens a="x,y" and b=2.
C6_QuoteAwareSplit ==
    nphase = "decoded" =>
        /\ nout = SegmentsFrom(DecodedInner, 1, OutsideCommas(DecodedInner))
        /\ \A i \in 1..Len(nout) : \A j \in 1..Len(nout[i]) :
              nout[i][j] = "," => QuoteAfter(nout[i], j - 1) # ""
        /\ ntext = ExampleText => nout = ExampleTokens

\* the example is decoded, through the list configobj reads for it
C6_Witness ==
    /\ nphase = "decoded"
    /\ ntext = ExampleText
    /\ nraw.k = "list"
    /\ nout = ExampleTokens

\* every token whose sub-field is declared string has a double-quoted value
StringValuesQuoted(l) ==
    \A i \in 1..Len(l) :
        (HasChar(l[i], "=") /\ NestedFieldType(CodecNestedFields, SplitFirst(l[i], "=")[1]) = "string")
            => LET value == SplitFirst(l[i], "=")[2] IN
               Len(value) >= 2 /\ StartsWith(value, "\"") /\ EndsWith(value, "\"")

\* a token that the text can carry: not blank at either end, its commas
\* inside quotations, its quotations closed
WellFormedToken(t) ==
    /\ t # <<>>
    /\ Strip(t) = t
    /\ QuoteAfter(t, Len(t)) = ""
    /\ \A j \in 1..Len(t) : t[j] = "," => QuoteAfter(t, j - 1) # ""

\* the value was encoded and the text itself was decoded
CodecRoundTripDone == nphase = "decoded" /\ nval.k = "list" /\ nraw = StrV(ntext)

-----------------------------------------------------------------------------
(* Properties of the config store.  They speak about the state after a     *)
(* call: `last` is the call, `file` the file it left, `written` the last   *)
(* successful write while the file still is what that write left.          *)

\* the formats the round trip is stated for
WritableFormats == {"configobj", "properties", "ruamel.yaml", "json", "toml"}

SectionKeys(sch) == {SectionKey(sch.sections[i]) : i \in 1..Len(sch.sections)}

\* a dict's entry for a name: <<value>>, or <<>>
Held(dict, name) == IF name \in DOMAIN dict THEN <<dict[name]>> ELSE <<>>

\* the members of a section's entry of a document
EntryMembers(entry) ==
    CASE entry.k = "table" -> entry.m
      [] entry.k = "obj" -> DictOf(entry.o)
      [] OTHER -> EmptyRec

\* an entry line of a properties file, its key and its value
IsEntryLine(raw) ==
    LET line == Strip(raw) IN
    line # <<>> /\ line[1] \notin {"#", "!"} /\ HasChar(line, "=")
LineKey(raw) == Strip(SplitFirst(Strip(raw), "=")[1])
LineValue(raw) == Strip(SplitFirst(Strip(raw), "=")[2])

\* the texts a properties file gives for a key, in the order of its lines
PropsValues(lines, name) ==
    LET hits == SelectSeq(lines, LAMBDA raw : IsEntryLine(raw) /\ LineKey(raw) = name)
    IN  [i \in 1..Len(hits) |-> LineValue(hits[i])]

\* what the file holds for the field `field` of the i-th schema section, as
\* the adapter of the file's kind looks it up: <<value>>, or <<>> when the
\* file does not hold the field
HeldValue(f, sch, i, field) ==
    LET section == sch.sections[i]
        sk == SectionKey(section)
    IN  CASE f.kind = "ini" ->
               IF sk \in DOMAIN f.body THEN Held(f.body[sk], field.name) ELSE <<>>
          [] f.kind = "props" ->
               LET vals == PropsValues(f.lines, field.name) IN
               IF i = 1 /\ vals # <<>> THEN <<StrV(vals[Len(vals)])>> ELSE <<>>
          [] f.kind = "json" ->
               IF sk \in DOMAIN f.doc THEN Held(EntryMembers(f.doc[sk]), field.name) ELSE <<>>
          [] f.kind \in {"toml", "yaml"} ->
               IF ~section.haskey THEN Held(f.doc, field.name)
               ELSE IF sk \in DOMAIN f.doc THEN Held(EntryMembers(f.doc[sk]), field.name)
               ELSE <<>>
          [] OTHER -> <<>>

\* the call was a read of a file that existed, with a registered format
ReadOfExisting ==
    /\ last.op = "read"
    /\ last.existed
    /\ last.fmt \in SupportedParsers
    /\ schema.meta

\* the call was a read that directly follows a successful write, in the
\* write's format, of a file that write created
ReadOfWritten ==
    /\ last.op = "read"
    /\ written.valid
    /\ written.fresh
    /\ last.fmt = written.fmt

\* C1: for each writable format and every record over the sections and
\* fields of the schema, writing the record and then reading the file with
\* the same schema and format returns a record equal to the written one.
C1_RoundTrip ==
    ( /\ ReadOfWritten
      /\ written.fmt \in WritableFormats
      /\ DOMAIN written.rec = SectionKeys(schema) )
    => last.ret = written.rec

\* a record was written and read back changed
C1_Witness ==
    /\ ReadOfWritten
    /\ written.fmt = "ruamel.yaml"
    /\ written.rec = (N_world :> (N_lvl :> IntV(7)))
    /\ last.ret = (N_world :> EmptyRec)

\* C2: a read of a file that does not exist creates the file and returns a
\* record in which every schema field that declares a default holds that
\* default.
C2_DefaultsMaterialized ==
    ( /\ last.op = "read"
      /\ ~last.existed
      /\ last.fmt \in WritableFormats
      /\ schema.meta
      /\ dirExists
      /\ dirWritable )
    => /\ FileExists(file)
       /\ \A i \in 1..Len(schema.sections) : \A j \in 1..Len(schema.sections[i].fields) :
            LET sk == SectionKey(schema.sections[i])
                field == schema.sections[i].fields[j]
            IN  field.hasdefault =>
                   /\ sk \in DOMAIN last.ret
                   /\ field.name \in DOMAIN last.ret[sk]
                   /\ last.ret[sk][field.name] = field.default

\* the file was created and the record holds no default
C2_Witness ==
    /\ last.op = "read"
    /\ ~last.existed
    /\ last.fmt = "ruamel.yaml"
    /\ schema = SchemaWorld
    /\ FileExists(file)
    /\ last.ret = (N_world :> EmptyRec)

\* C3 as stated: when the file exists and does not hold a schema field, the
\* record returned by read holds the field's section, and the section does
\* not hold the field.
C3_AsStated ==
    ReadOfExisting =>
       \A i \in 1..Len(schema.sections) : \A j \in 1..Len(schema.sections[i].fields) :
          LET sk == SectionKey(schema.sections[i])
              field == schema.sections[i].fields[j]
          IN  HeldValue(file, schema, i, field) = <<>> =>
                 /\ sk \in DOMAIN last.ret
                 /\ field.name \notin DOMAIN last.ret[sk]

\* C3: when the file exists and does not hold a schema field, no section of
\* the record returned by read holds the field, with its default or
\* otherwise, and the read does not raise; the record holds the field's
\* section unless the record is empty or the adapter is the properties
\* adapter and the section is not the first of the schema.
C3_AbsentFieldStaysAbsent ==
    ReadOfExisting =>
       \A i \in 1..Len(schema.sections) : \A j \in 1..Len(schema.sections[i].fields) :
          LET sk == SectionKey(schema.sections[i])
              field == schema.sections[i].fields[j]
          IN  HeldValue(file, schema, i, field) = <<>> =>
                 /\ ~last.raised
                 /\ sk \in DOMAIN last.ret => field.name \notin DOMAIN last.ret[sk]
                 /\ (last.ret # EmptyRec /\ (last.fmt = "properties" => i = 1))
                       => sk \in DOMAIN last.ret

\* a file that holds pvp alone of the section world was read: the record
\* holds pvp alone
C3_Witness ==
    /\ ReadOfExisting
    /\ last.fmt = "configobj"
    /\ schema = SchemaWorld
    /\ file = IniFile(N_world :> (N_pvp :> StrV(<<"o","n">>)))
    /\ last.ret = (N_world :> (N_pvp :> BoolV(TRUE)))

\* C4: a write while the parent directory is not writable returns failure
\* without raising, calls no adapter to encode, and leaves the file as it
\* was.
C4_UnwritableDirectory ==
    [][(last'.op = "write" /\ ~dirWritable)
          => /\ ~last'.ok
             /\ ~last'.raised
             /\ last'.enc = 0
             /\ file' = file]_vars

\* a write was refused while the file existed
C4_Witness ==
    /\ last.op = "write"
    /\ ~dirWritable
    /\ dirExists
    /\ last.existed
    /\ FileExists(file)
    /\ ~last.ok

\* C5: with a format id that is not registered, read returns the empty
\* record and write returns failure, and neither raises, whether or not the
\* file existed before the call.
C5_UnregisteredFormat ==
    (last.op \in {"read", "write"} /\ last.fmt \notin SupportedParsers)
    => /\ ~last.raised
       /\ last.op = "read" => last.ret = EmptyRec
       /\ last.op = "write" => ~last.ok

\* a read with the format id "xml" of a file that existed
C5_Witness ==
    /\ last.op = "read"
    /\ last.fmt = "xml"
    /\ last.existed
    /\ last.ret = EmptyRec

\* the call was a read with the properties adapter that ended with a file
RereadProperties ==
    /\ last.op = "read"
    /\ last.fmt = "properties"
    /\ schema.meta
    /\ schema.sections # <<>>
    /\ file.kind = "props"

\* C8: in the properties adapter, the value of a boolean field decodes to
\* true when it is "true" and to false when it is none of the true-words,
\* and the value of a number field that is an integer text decodes to that
\* integer; the last line of a key decides.
C8_PropertiesCoercion ==
    RereadProperties =>
       \A j \in 1..Len(schema.sections[1].fields) :
          LET sk == SectionKey(schema.sections[1])
              field == schema.sections[1].fields[j]
              vals == PropsValues(file.lines, field.name)
              text == vals[Len(vals)]
          IN  vals # <<>> =>
                 /\ (field.type = "boolean" /\ text = <<"t","r","u","e">>)
                       => last.ret[sk][field.name] = BoolV(TRUE)
                 /\ (field.type = "boolean" /\ Lower(text) \notin TrueWords)
                       => last.ret[sk][field.name] = BoolV(FALSE)
                 /\ (field.type = "number" /\ AllDigits(text))
                       => last.ret[sk][field.name] = IntV(DigitsValue(text))

\* the lines lvl=7 and pvp=true were read
C8_Witness ==
    /\ RereadProperties
    /\ last.existed
    /\ schema = SchemaWorld
    /\ file.lines = << <<"l","v","l","=","7">>, <<"p","v","p","=","t","r","u","e">> >>
    /\ last.ret = (N_world :> ((N_lvl :> IntV(7)) @@ (N_pvp :> BoolV(TRUE))))

\* the conversion of a held value by the adapter of the format fails
ConversionFails(fmt, field, value) ==
    CASE fmt = "configobj" -> ConvertByDefault(field, value).exc
      [] fmt \in {"json", "toml"} -> ConvertNative(field, value).exc
      [] fmt = "properties" -> PropertiesConvert(field.type, value.s).exc
      [] OTHER -> FALSE

\* C9: in every adapter, a field whose value cannot be converted to its type
\* is in the returned record with its raw value; the decode is not aborted.
C9_CoercionFallsBack ==
    (ReadOfExisting /\ ~IniUnreadable(file)) =>
       \A i \in 1..Len(schema.sections) : \A j \in 1..Len(schema.sections[i].fields) :
          LET sk == SectionKey(schema.sections[i])
              field == schema.sections[i].fields[j]
              held == HeldValue(file, schema, i, field)
          IN  (held # <<>> /\ field.type # "nested" /\ ConversionFails(last.fmt, field, held[1]))
                 => /\ sk \in DOMAIN last.ret
                    /\ field.name \in DOMAIN last.ret[sk]
                    /\ last.ret[sk][field.name] = held[1]

\* the section file with lvl = abc was read and the record is empty
C9_Witness ==
    /\ ReadOfExisting
    /\ last.fmt = "configobj"
    /\ schema = SchemaWorld
    /\ file = IniFile(N_world :> ((N_lvl :> StrV(T_abc)) @@ (N_pvp :> StrV(<<"y","e","s">>))))
    /\ last.ret = EmptyRec

\* C10: a write returns success only if the file exists and is not of size
\* zero after it.
C10_SuccessMeansNonEmptyFile ==
    (last.op = "write" /\ last.ok) => (FileExists(file) /\ ~FileSizeZero(file))

\* a write returned success and left a file of size zero
C10_Witness ==
    /\ last.op = "write"
    /\ last.ok
    /\ last.fmt = "toml"
    /\ FileSizeZero(file)

\* C11: no call lets an exception reach its caller; a read of a file that
\* cannot be opened, is not text, or is rejected by the parser returns the
\* empty record; a write onto a file that cannot be opened returns failure
\* and leaves the file.
C11_FailuresAreReturned ==
    [][/\ last'.op \in {"read", "write"} => ~last'.raised
       /\ (/\ last'.op = "read"
           /\ \/ Unreadable(file)
              \/ last'.fmt = "configobj" /\ IniUnreadable(file))
             => last'.ret = EmptyRec /\ file' = file
       /\ (last'.op = "write" /\ file = LockedFile)
             => ~last'.ok /\ file' = file]_vars

\* a file that is not text was handed to the JSON decode: the empty record
C11_Witness ==
    /\ last.op = "read"
    /\ last.existed
    /\ last.fmt = "json"
    /\ last.dec = 1
    /\ file = JunkFile
    /\ last.ret = EmptyRec

\* the field names the schema declares under a section key
DeclaredNames(sch, sk) ==
    UNION {{sch.sections[i].fields[j].name : j \in 1..Len(sch.sections[i].fields)} :
              i \in {n \in 1..Len(sch.sections) : SectionKey(sch.sections[n]) = sk}}

\* C12: every section key of a record returned by read is a section key of
\* the schema, and every field name under it is declared by the schema
\* under that key, whatever the file holds.
C12_OnlyDeclared ==
    last.op = "read" =>
       \A sk \in DOMAIN last.ret :
          /\ sk \in SectionKeys(schema)
          /\ DOMAIN last.ret[sk] \subseteq DeclaredNames(schema, sk)

\* the section file with the keys port and pvp and the section net, which
\* the schema does not declare, was read: the record holds world.lvl alone
C12_Witness ==
    /\ ReadOfExisting
    /\ last.fmt = "configobj"
    /\ schema = SchemaWorld
    /\ file = ExtraIni
    /\ last.ret = (N_world :> (N_lvl :> IntV(7)))

\* the formats of the structured-document adapters
DocFormats == {"ruamel.yaml", "json", "toml"}

\* the call was a successful write of a structured document
DocWritten ==
    /\ last.op = "write"
    /\ last.ok
    /\ last.fmt \in DocFormats
    /\ written.valid

\* C13: in the YAML, JSON and TOML adapters a section with a key is the
\* top-level entry of that key, and the fields of a section without key are
\* written to the document root, not under an entry "default", and read
\* from the root: what a write leaves for such a section, the decode of the
\* same adapter finds.
C13_KeylessAtRoot ==
    /\ DocWritten =>
          \A i \in 1..Len(schema.sections) :
             LET section == schema.sections[i]
                 sk == SectionKey(section)
             IN  sk \in DOMAIN written.rec =>
                    IF section.haskey
                    THEN /\ sk \in DOMAIN file.doc
                         /\ DOMAIN EntryMembers(file.doc[sk]) = DOMAIN written.rec[sk]
                    ELSE /\ DOMAIN written.rec[sk] \subseteq DOMAIN file.doc
                         /\ sk \notin DOMAIN file.doc
    /\ (ReadOfWritten /\ last.fmt \in DocFormats) =>
          \A i \in 1..Len(schema.sections) :
             LET section == schema.sections[i]
                 sk == SectionKey(section)
             IN  (~section.haskey /\ sk \in DOMAIN written.rec) =>
                    /\ sk \in DOMAIN last.ret
                    /\ DOMAIN last.ret[sk] = DOMAIN written.rec[sk]

\* the YAML adapter wrote the field of a section without key under the
\* entry "default"
C13_Witness ==
    /\ DocWritten
    /\ last.fmt = "ruamel.yaml"
    /\ schema = SchemaFlat
    /\ written.rec = (N_default :> (N_lvl :> IntV(7)))
    /\ file = DocFile("yaml", N_default :> Table(N_lvl :> IntV(7)))

\* the text is wrapped in parentheses
Parenthesised(t) == StartsWith(t, "(") /\ EndsWith(t, ")")

\* C14: a nested field whose value in the file is a text without the
\* parentheses, or a list, is in the record with its content: the text as
\* it is (alone or as the one element of a list), the list with its
\* elements; it is not replaced by the empty list.
C14_MalformedPassedThrough ==
    (ReadOfExisting /\ last.fmt \in {"configobj", "json", "toml"} /\ last.ret # EmptyRec) =>
       \A i \in 1..Len(schema.sections) : \A j \in 1..Len(schema.sections[i].fields) :
          LET sk == SectionKey(schema.sections[i])
              field == schema.sections[i].fields[j]
              held == HeldValue(file, schema, i, field)
          IN  (field.type = "nested" /\ held # <<>>) =>
                 /\ (held[1].k = "str" /\ ~Parenthesised(held[1].s))
                       => /\ field.name \in DOMAIN last.ret[sk]
                          /\ last.ret[sk][field.name] \in {held[1], ListV(<<held[1].s>>)}
                 /\ (held[1].k = "list" /\ ~Parenthesised(Join(held[1].l, <<",">>)))
                       => /\ field.name \in DOMAIN last.ret[sk]
                          /\ last.ret[sk][field.name] = held[1]

\* the nested field was the text a=1 and the record holds the empty list
C14_Witness ==
    /\ ReadOfExisting
    /\ last.fmt = "configobj"
    /\ schema = SchemaWorld
    /\ file = BareIni
    /\ last.ret = (N_world :> (N_opts :> ListV(<<>>)))

-----------------------------------------------------------------------------
(* More about the nested-field codec (checked under SpecCodec).            *)

\* the value is wrapped in a pair of the same quote character
QuotedEitherWay(value) ==
    \E q \in {"\"", "'"} : StartsWith(value, q) /\ EndsWith(value, q)

\* the token as the encode is to emit it: the value of a string sub-field
\* that is not empty and not quoted is wrapped in double quotes
EmittedToken(element) ==
    IF HasChar(element, "=")
    THEN LET key == SplitFirst(element, "=")[1]
             value == SplitFirst(element, "=")[2]
         IN  IF /\ NestedFieldType(CodecNestedFields, key) = "string"
                /\ value # <<>>
                /\ ~QuotedEitherWay(value)
             THEN key \o <<"=", "\"">> \o value \o <<"\"">>
             ELSE element
    ELSE element

\* a nested value has been encoded
CodecEncoded == nval.k = "list" /\ nphase # "value"

\* C15: the encode wraps in double quotes the value of every token whose
\* sub-field is declared string, when the value is not empty and not quoted
\* already with either quote character; it emits every other token as it
\* is; the tokens are joined with commas in their order, inside one pair of
\* parentheses.
C15_EncodeByDeclaredType ==
    CodecEncoded =>
       ntext = <<"(">> \o Join([i \in 1..Len(nval.l) |-> EmittedToken(nval.l[i])], <<",">>) \o <<")">>

\* the single-quoted value of a string sub-field was wrapped once more
C15_Witness ==
    /\ CodecEncoded
    /\ nval.l = <<TokSingle, TokLvl>>
    /\ ntext = <<"(","n","a","m","e","=","\"","'","x","'","\"",",","l","v","l","=","2",")">>

-----------------------------------------------------------------------------
(* More about the config store (checked under Spec).                       *)

\* what the write of the defaults returns in the present state
DefaultsSaved(fmt) ==
    SaveGameConfig(Env, schema, GetDefaultValues(schema), KeysInOrder(schema.sections, {}), fmt)

\* C16: a read of a missing file whose write of the defaults fails returns
\* the empty record without a decode; a read makes at most one write of the
\* defaults (none when the file exists) and at most one decode.
C16_FailedCreationEndsRead ==
    [][last'.op = "read" =>
          /\ last'.enc \in {0, 1}
          /\ last'.dec \in {0, 1}
          /\ FileExists(file) => last'.enc = 0
          /\ (~FileExists(file) /\ ~DefaultsSaved(last'.fmt).ok)
                => /\ last'.ret = EmptyRec
                   /\ last'.dec = 0
                   /\ ~last'.raised]_vars

\* a missing file was read in a directory that cannot be written: no file,
\* no decode, the empty record
C16_Witness ==
    /\ last.op = "read"
    /\ last.fmt = "json"
    /\ schema = SchemaWorld
    /\ ~last.existed
    /\ dirExists
    /\ ~dirWritable
    /\ ~FileExists(file)
    /\ last.dec = 0
    /\ last.ret = EmptyRec

\* the value has the native type of a default of kind `kind` already
NativeOf(kind, value) ==
    CASE kind = "bool" -> IsBool(value)
      [] kind = "int" -> IsInt(value)
      [] kind = "float" -> IsNumber(value)
      [] OTHER -> FALSE

\* C17: in every adapter, a plain field whose default is a boolean, an
\* integer or a float is returned converted by the type of that default: a
\* value of the native type as it is, a boolean as the test of the lowered
\* text against true, 1, yes, on, an integer as the base-10 parse of an
\* integer text, a float as the parse of a decimal text.
C17_ConvertedByDefaultType ==
    ReadOfExisting =>
       \A i \in 1..Len(schema.sections) : \A j \in 1..Len(schema.sections[i].fields) :
          LET sk == SectionKey(schema.sections[i])
              field == schema.sections[i].fields[j]
              held == HeldValue(file, schema, i, field)
              kind == field.default.k
          IN  (/\ field.type # "nested"
               /\ field.hasdefault
               /\ held # <<>>
               /\ sk \in DOMAIN last.ret
               /\ field.name \in DOMAIN last.ret[sk])
              => LET got == last.ret[sk][field.name] IN
                 /\ NativeOf(kind, held[1]) => got = held[1]
                 /\ (kind = "bool" /\ ~IsBool(held[1])) => got = TrueWord(held[1])
                 /\ (kind = "int" /\ held[1].k = "str" /\ IsIntText(held[1].s))
                       => got = IntV(IntOfText(held[1].s))
                 /\ (kind = "float" /\ held[1].k = "str" /\ IsFloatText(held[1].s))
                       => got = FloatOfText(held[1].s)

\* the pyhocon adapter read the text "7" for a field whose default is an
\* integer and returned the text
C17_Witness ==
    /\ ReadOfExisting
    /\ last.fmt = "pyhocon"
    /\ schema = SchemaFlat
    /\ file = DocFile("json", N_default :> Table(N_lvl :> StrV(T_7)))
    /\ last.ret = (N_default :> (N_lvl :> StrV(T_7))) @@ (N_net :> EmptyRec)

\* the names of the fields of a section that a dict holds, in schema order
NamesHeld(section, dict) ==
    LET held == SelectSeq(section.fields, LAMBDA fld : fld.name \in DOMAIN dict)
    IN  [i \in 1..Len(held) |-> held[i].name]

\* the keys of the entry lines of a properties file, in the order of the
\* lines
EntryKeys(lines) ==
    LET entries == SelectSeq(lines, IsEntryLine)
    IN  [i \in 1..Len(entries) |-> LineKey(entries[i])]

\* C18: the properties adapter works on the first schema section alone.
\* Its decode returns exactly that section, holding the declared fields for
\* which the file has a key=value line; blank lines, lines that start
\* with # or ! and lines without '=' are passed over, and the lines after
\* them are still read.  Its encode writes one line for each field of the
\* first section that the record holds, in the order of the schema.
C18_PropertiesFirstSection ==
    /\ RereadProperties =>
          LET section == schema.sections[1]
              sk == SectionKey(section)
          IN  /\ DOMAIN last.ret = {sk}
              /\ \A name \in DOMAIN last.ret[sk] : FindField(section, name) # <<>>
              /\ \A j \in 1..Len(section.fields) :
                    section.fields[j].name \in DOMAIN last.ret[sk]
                       <=> PropsValues(file.lines, section.fields[j].name) # <<>>
    /\ (last.op = "write" /\ last.ok /\ last.fmt = "properties") =>
          LET section == schema.sections[1]
              sk == SectionKey(section)
          IN  /\ file.kind = "props"
              /\ EntryKeys(file.lines)
                    = IF sk \in DOMAIN written.rec THEN NamesHeld(section, written.rec[sk])
                      ELSE <<>>

\* a file whose first line has no '=' was read: the second line is in the
\* record
C18_Witness ==
    /\ RereadProperties
    /\ last.existed
    /\ schema = SchemaWorld
    /\ file.lines = << <<"j","u","n","k">>, <<"l","v","l","=","7">> >>
    /\ last.ret = (N_world :> (N_lvl :> IntV(7)))

\* the section keys of a record whose schema section declares no key
KeylessKeys(rec, sch) == {sk \in DOMAIN rec : ~HasKeyInSchema(sch, sk)}

\* the values the root-level entry `name` of the document can be given: the
\* field of that name of a section without key, the table of the section
\* whose key is that name
RootCandidates(rec, sch, name) ==
    {ProcessedTable(sch, sk, rec[sk]).m[name] :
        sk \in {k \in KeylessKeys(rec, sch) : name \in DOMAIN rec[k]}}
    \cup {ProcessedTable(sch, sk, rec[sk]) : sk \in (DOMAIN rec \ KeylessKeys(rec, sch)) \cap {name}}

\* C19: a structured-document encode writes the fields of the sections
\* without key at the document root, next to the entries of the sections
\* with a key; where two of these have the same name, the document holds
\* one of them whole (the one processed later), and the write succeeds.
C19_KeylessFlattened ==
    DocWritten =>
       /\ DOMAIN file.doc
             = (DOMAIN written.rec \ KeylessKeys(written.rec, schema))
               \cup UNION {DOMAIN written.rec[sk] : sk \in KeylessKeys(written.rec, schema)}
       /\ \A name \in DOMAIN file.doc :
             file.doc[name] \in RootCandidates(written.rec, schema, name)

\* the JSON adapter wrote the field of a section without key under the
\* entry "default"
C19_Witness ==
    /\ DocWritten
    /\ last.fmt = "json"
    /\ schema = SchemaFlat
    /\ written.rec = (N_default :> (N_lvl :> IntV(7)))
    /\ file = DocFile("json", N_default :> Table(N_lvl :> IntV(7)))

\* the indices of the schema sections that resolve to a key
SectionsOf(sch, sk) == {i \in 1..Len(sch.sections) : SectionKey(sch.sections[i]) = sk}

\* the names of the fields of a section
FieldNames(section) == {section.fields[j].name : j \in 1..Len(section.fields)}

\* the formats whose decode returns the fields it reads
RoundTripFormats == {"configobj", "properties", "json", "toml"}

\* C20: where several schema sections resolve to one key, the defaults, the
\* encode and the decode work on one and the same of these sections: a read
\* that creates the file returns under that key exactly the fields of one
\* of the sections (each has a default), and a record whose entry holds the
\* fields of the section the encode resolves is read back with those
\* fields (reads whose decode gives up aside).
C20_OneSectionPerKey ==
    \A sk \in SectionKeys(schema) :
       Cardinality(SectionsOf(schema, sk)) > 1 =>
          /\ (/\ last.op = "read"
               /\ ~last.existed
               /\ FileExists(file)
               /\ last.fmt \in RoundTripFormats
               /\ last.ret # EmptyRec)
              => /\ sk \in DOMAIN last.ret
                 /\ \E i \in SectionsOf(schema, sk) :
                       DOMAIN last.ret[sk] = FieldNames(schema.sections[i])
          /\ (/\ ReadOfWritten
               /\ last.fmt \in RoundTripFormats
               /\ last.ret # EmptyRec
               /\ sk \in DOMAIN written.rec
               /\ DOMAIN written.rec[sk] = FieldNames(FindSection(schema, sk)[1]))
              => /\ sk \in DOMAIN last.ret
                 /\ DOMAIN last.ret[sk] = DOMAIN written.rec[sk]

\* the fields of the first of two sections without key were written and
\* the read, which decodes against the second, returned none of them
C20_Witness ==
    /\ ReadOfWritten
    /\ last.fmt = "configobj"
    /\ schema = SchemaTwin
    /\ written.rec = (N_default :> ((N_lvl :> IntV(7)) @@ (N_net :> IntV(7))))
                         @@ (N_net :> (N_port :> IntV(7)))
    /\ last.ret = (N_default :> EmptyRec) @@ (N_net :> (N_port :> IntV(7)))

-----------------------------------------------------------------------------
(* What a call leaves of the file (checked under Spec)                     *)

\* C21: read() on a config file that exists leaves the file as it is and
\* calls no encoder, whatever the format id; a second read() that follows
\* it at once, with the same schema and the same format id, returns the
\* record the first one returned.
C21_ReadLeavesFile ==
    [][(last'.op = "read" /\ file # NoFile) =>
          /\ last'.existed
          /\ file' = file
          /\ last'.enc = 0
          /\ (last.op = "read" /\ last.existed /\ last.fmt = last'.fmt /\ schema' = schema)
                => last'.ret = last.ret]_vars

\* a file somebody else left was read into a record with a field, and the
\* file is still what it was
C21_Witness ==
    /\ last.op = "read"
    /\ last.existed
    /\ last.enc = 0
    /\ last.dec = 1
    /\ ~written.valid
    /\ file \in EditedFiles
    /\ \E sk \in DOMAIN last.ret : last.ret[sk] # EmptyRec

\* the record names a field that a section of the schema with the key of
\* the record's section declares nested
NamesNested(sch, rec) ==
    \E sk \in DOMAIN rec : \E fn \in DOMAIN rec[sk] : \E i \in SectionsOf(sch, sk) :
       \E j \in 1..Len(sch.sections[i].fields) :
          /\ sch.sections[i].fields[j].name = fn
          /\ sch.sections[i].fields[j].type = "nested"

\* the sections and fields a section file holds; none when there is no file
\* or the file is no section file
IniHeld(f) == IF f.kind = "ini" THEN f.body ELSE EmptyRec

\* a write of rec with the section-keyed format has succeeded in this step
ConfigobjWrote ==
    /\ last'.op = "write"
    /\ last'.fmt = "configobj"
    /\ last'.ok
    /\ written'.valid

\* C22: a successful section-keyed write of a record without a field the
\* schema declares nested merges into the file: what the file held and the
\* record does not name is still there with its old value, and every field
\* of the record is there. With a nested field in the record the file holds
\* exactly the sections and fields of the record afterwards. A write that
\* fails leaves the file.
C22_MergeOrReplace ==
    [][/\ ConfigobjWrote =>
             LET rec == written'.rec
                 old == IniHeld(file)
                 new == IniHeld(file')
             IN  /\ file'.kind = "ini"
                 /\ \A sk \in DOMAIN rec :
                       sk \in DOMAIN new /\ DOMAIN rec[sk] \subseteq DOMAIN new[sk]
                 /\ IF NamesNested(schema, rec)
                    THEN /\ DOMAIN new = DOMAIN rec
                         /\ \A sk \in DOMAIN rec : DOMAIN new[sk] = DOMAIN rec[sk]
                    ELSE \A sk \in DOMAIN old :
                            /\ sk \in DOMAIN new
                            /\ \A fn \in DOMAIN old[sk] :
                                  (sk \notin DOMAIN rec \/ fn \notin DOMAIN rec[sk])
                                     => fn \in DOMAIN new[sk] /\ new[sk][fn] = old[sk][fn]
       /\ (last'.op = "write" /\ last'.fmt = "configobj" /\ ~last'.ok) => file' = file]_vars

\* pvp was written into a section file that held lvl and port in the same
\* section and another section: all of them are still there
C22_Witness ==
    /\ last.op = "write"
    /\ last.fmt = "configobj"
    /\ last.ok
    /\ last.existed
    /\ schema = SchemaWorld
    /\ written.valid
    /\ written.rec = (N_world :> (N_pvp :> BoolV(FALSE)))
    /\ file = IniFile((N_world :> ((N_lvl :> StrV(T_7)) @@ (N_port :> StrV(T_7))
                                   @@ (N_pvp :> StrV(<<"F","a","l","s","e">>))))
                      @@ (N_net :> ((N_port :> StrV(T_7)) @@ (N_pvp :> StrV(<<"o","n">>)))))

\* opts, a nested field, was written over a file that held other sections
\* and fields: the file holds opts and nothing else
C22_Replaced ==
    /\ last.op = "write"
    /\ last.fmt = "configobj"
    /\ last.ok
    /\ last.existed
    /\ schema = SchemaWorld
    /\ written.valid
    /\ written.rec = (N_world :> (N_opts :> ExampleNested))
    /\ DOMAIN file.body = {N_world}
    /\ DOMAIN file.body[N_world] = {N_opts}

\* C23: read() and write() with a format id that is not registered call no
\* encoder and no decoder and leave the file: a file that was there is the
\* same afterwards, a file that was not there is still not there. The
\* directory may have been created, and is never removed.
C23_UnregisteredLeavesFile ==
    [][(last'.op \in {"read", "write"} /\ last'.fmt \notin SupportedParsers) =>
          /\ file' = file
          /\ last'.enc = 0
          /\ last'.dec = 0
          /\ dirExists => dirExists'
          /\ ~last'.ok
          /\ last'.ret = EmptyRec]_vars

\* a read with the format id xml found no file, went through the creation
\* of the defaults in a directory it may write to, and there is no file
C23_Witness ==
    /\ last.op = "read"
    /\ last.fmt = "xml"
    /\ ~last.existed
    /\ schema.meta
    /\ dirExists
    /\ dirWritable
    /\ file = NoFile

\* a write with the format id xml over a file that holds something
C23_WriteOverFile ==
    /\ last.op = "write"
    /\ last.fmt = "xml"
    /\ last.existed
    /\ schema.meta
    /\ dirWritable
    /\ file \in EditedFiles

=============================================================================
